---- MODULE Spec2Model ----
(***************************************************************************)
(* The directory walker of sixach/wp-scripts: getAllFilesInDirectory       *)
(* (src/unnamed/part_000, lines 105-135), the recursive traversal that     *)
(* selects the files of a package directory not excluded by the ignore     *)
(* patterns, together with getProjectPath (line 76).                       *)
(*                                                                         *)
(* Paths, file names and patterns are strings, as in the source; the       *)
(* recursion is an explicit stack of frames (directoryPath, files, i).     *)
(* readdirSync, statSync, path.join and minimatch are library calls and    *)
(* are modelled by what they do on the file system of the model.           *)
(***************************************************************************)
EXTENDS Integers, Sequences, FiniteSets, TLC

VARIABLES
    tree,         \* the directory tree on disk: the root-relative paths that exist
    order,        \* the order in which readdirSync enumerates a directory
    ignoredFiles, \* the pattern list handed to the walker
    root,         \* directoryPath of the outermost call, as the caller wrote it
    stack,        \* the call stack: one frame per active getAllFilesInDirectory
    foundFiles,   \* the accumulating array threaded through the recursion
    status,       \* "idle", "running", "returned" or "thrown"
    result,       \* what the outermost call handed to its caller
    listed,       \* the directory paths readdirSync has listed in this call
    prev          \* root and result of the previous completed call

vars == <<tree, order, ignoredFiles, root, stack, foundFiles, status, result, listed, prev>>

----------------------------------------------------------------------------
(* Bounds of the model. *)

\* Longest pattern list the walker is handed.
MaxPatterns == 2

\* Largest number of entries (files and directories) in the tree.
MaxEntries == 6

----------------------------------------------------------------------------
(* The file system. *)

\* process.cwd(): the package directory.
Cwd == "/p"

\* Every entry a tree may hold: root-relative path, parent directory ("" is
\* the root), base name, and whether statSync reports a directory.  The
\* position in the sequence is the entry's rank in a directory listing.
Universe ==
    << [path |-> "a",                       parent |-> "",               name |-> "a",        dir |-> TRUE],
       [path |-> "a/b",                     parent |-> "a",              name |-> "b",        dir |-> FALSE],
       [path |-> "build",                   parent |-> "",               name |-> "build",    dir |-> TRUE],
       [path |-> "build/out.zip",           parent |-> "build",          name |-> "out.zip",  dir |-> FALSE],
       [path |-> "out.zip",                 parent |-> "",               name |-> "out.zip",  dir |-> FALSE],
       [path |-> "src",                     parent |-> "",               name |-> "src",      dir |-> TRUE],
       [path |-> "src-old",                 parent |-> "",               name |-> "src-old",  dir |-> FALSE],
       [path |-> "src/index.js",            parent |-> "src",            name |-> "index.js", dir |-> FALSE],
       [path |-> "vendor",                  parent |-> "",               name |-> "vendor",   dir |-> TRUE],
       [path |-> "vendor/pkg",              parent |-> "vendor",         name |-> "pkg",      dir |-> TRUE],
       [path |-> "vendor/pkg/src",          parent |-> "vendor/pkg",     name |-> "src",      dir |-> TRUE],
       [path |-> "vendor/pkg/src/index.js", parent |-> "vendor/pkg/src", name |-> "index.js", dir |-> FALSE] >>

Entries == {Universe[k] : k \in 1..Len(Universe)}

\* A tree is a set of entries that holds the parent of each of its entries.
IsTree(t) == \A n \in t : n.parent = "" \/ \E m \in t : m.path = n.parent /\ m.dir

Trees == {t \in SUBSET Entries : Cardinality(t) <= MaxEntries /\ IsTree(t)}

\* The patterns an ignore file may hold, in the order of its lines.
PatternPool == <<"/src", "/a/b", "*.zip", "buil?">>

RECURSIVE SubLists(_, _)
SubLists(k, n) ==
    IF k > Len(PatternPool) THEN {<<>>}
    ELSE LET rest == SubLists(k + 1, n)
         IN  rest \cup {<<PatternPool[k]>> \o s : s \in {r \in rest : Len(r) < n}}

PatternLists == SubLists(1, MaxPatterns)

\* The value a caller holds when no list was returned to it.
NoResult == "no result"

NoCall == [root |-> "", result |-> NoResult]

----------------------------------------------------------------------------
(* Strings. *)

\* String.prototype.startsWith
StartsWith(s, p) == Len(p) <= Len(s) /\ SubSeq(s, 1, Len(p)) = p

\* String.prototype.substr( 1 )
Substr1(s) == SubSeq(s, 2, Len(s))

CharAt(s, k) == SubSeq(s, k, k)

NoSlash(s) == \A k \in 1..Len(s) : CharAt(s, k) # "/"

\* A glob against a string: `*` is any run of characters within a path
\* segment, `?` is one character of a segment, anything else is literal.
RECURSIVE Glob(_, _)
Glob(s, pat) ==
    IF pat = "" THEN s = ""
    ELSE LET c == CharAt(pat, 1) IN
         IF c = "*"
         THEN \E k \in 0..Len(s) :
                  /\ NoSlash(SubSeq(s, 1, k))
                  /\ Glob(SubSeq(s, k + 1, Len(s)), Substr1(pat))
         ELSE /\ s # ""
              /\ IF c = "?" THEN CharAt(s, 1) # "/" ELSE CharAt(s, 1) = c
              /\ Glob(Substr1(s), Substr1(pat))

\* minimatch( name, pattern ) with its default options: a name that begins
\* with a dot is matched only by a pattern that begins with a literal dot.
minimatch(s, pat) ==
    /\ Glob(s, pat)
    /\ (s # "" /\ CharAt(s, 1) = ".") => (pat # "" /\ CharAt(pat, 1) = ".")

----------------------------------------------------------------------------
(* Library calls on the file system. *)

\* path.join( a, b ): the two joined by a separator and normalised.
PathJoin(a, b) ==
    IF b = "." THEN a
    ELSE IF a = "." THEN b
    ELSE a \o "/" \o b

\* getProjectPath( fileOrFolder )
getProjectPath(fileOrFolder) == PathJoin(Cwd, fileOrFolder)

\* The ways a caller writes the package directory.
RootForms == {".", getProjectPath(".")}

\* The absolute path a path resolves to, relative paths against process.cwd().
Resolve(p) == IF StartsWith(p, "/") THEN p ELSE PathJoin(Cwd, p)

\* The entry of the tree a path names (none when nothing is there).
EntryAt(t, p) == {n \in t : PathJoin(Cwd, n.path) = Resolve(p)}

\* The root-relative path of the directory a path names ("" for the root).
DirKey(t, p) ==
    IF Resolve(p) = Cwd THEN ""
    ELSE (CHOOSE n \in EntryAt(t, p) : TRUE).path

Reverse(s) == [k \in 1..Len(s) |-> s[Len(s) + 1 - k]]

\* readdirSync( directoryPath ): the names of the directory's children, in
\* the enumeration order of the file system.
readdirSync(t, ord, p) ==
    LET kids  == SelectSeq(Universe, LAMBDA n : n \in t /\ n.parent = DirKey(t, p))
        names == [k \in 1..Len(kids) |-> kids[k].name]
    IN  IF ord = "asc" THEN names ELSE Reverse(names)

\* The type check answering "not a directory" for every path.
isDirectoryNever(t, p) == FALSE

\* statSync( filePath ).isDirectory()
isDirectory(t, p) == \E n \in EntryAt(t, p) : n.dir

----------------------------------------------------------------------------
(* getAllFilesInDirectory: the test of one child against the patterns. *)

\* The test of one pattern (lines 118-125), with the anchored branch
\* comparing for equality instead of a prefix.
PatternHitExact(fileName, filePath, currentIgnoredFile) ==
    IF StartsWith(currentIgnoredFile, "/")
    THEN filePath = Substr1(currentIgnoredFile)
    ELSE minimatch(fileName, currentIgnoredFile)

\* The same test with the glob applied to the joined path.
PatternHitFullPath(fileName, filePath, currentIgnoredFile) ==
    IF StartsWith(currentIgnoredFile, "/")
    THEN StartsWith(filePath, Substr1(currentIgnoredFile))
    ELSE minimatch(filePath, currentIgnoredFile)

PatternHit(fileName, filePath, currentIgnoredFile) ==
    IF StartsWith(currentIgnoredFile, "/")
    THEN StartsWith(filePath, Substr1(currentIgnoredFile))
    ELSE minimatch(fileName, currentIgnoredFile)

\* The inner loop starting at the second pattern.
IgnoredFromSecond(fileName, filePath, pats) ==
    \E j \in 2..Len(pats) : PatternHit(fileName, filePath, pats[j])

\* The inner loop over the patterns: `continue outer` at the first hit.
Ignored(fileName, filePath, pats) ==
    \E j \in 1..Len(pats) : PatternHit(fileName, filePath, pats[j])

\* foundFiles.unshift in place of foundFiles.push.
Unshifted(found, filePath) == <<filePath>> \o found

\* foundFiles.push( filePath )
Pushed(found, filePath) == Append(found, filePath)

\* The recursive call made without its third argument.
PassedFresh(found) == <<>>

\* The accumulator the recursive call receives and hands back.
Passed(found) == found

\* An error caught and the list built so far returned in its place.
RaisedPartial(found) == found

\* What the caller receives when readdirSync or statSync throws: the error
\* unwinds every frame, no list is returned.
Raised(found) == NoResult

----------------------------------------------------------------------------
(* The state machine. *)

Frame(directoryPath) ==
    [directoryPath |-> directoryPath, pc |-> "readdir", files |-> <<>>, i |-> 1]

Top == stack[Len(stack)]

fileName == Top.files[Top.i]

filePath == PathJoin(Top.directoryPath, fileName)

InLoop == status = "running" /\ Top.pc = "loop" /\ Top.i <= Len(Top.files)

Advance(f) == [f EXCEPT !.i = @ + 1]

ReplaceTop(f) == [stack EXCEPT ![Len(stack)] = f]

Init ==
    /\ tree \in Trees
    /\ order \in {"asc", "desc"}
    /\ ignoredFiles \in PatternLists
    /\ root = ""
    /\ stack = <<>>
    /\ foundFiles = <<>>
    /\ status = "idle"
    /\ result = NoResult
    /\ listed = {}
    /\ prev = NoCall

\* getAllFilesInDirectory( r, ignoredFiles ) is called.
Call(r) ==
    /\ status = "idle"
    /\ root' = r
    /\ stack' = <<Frame(r)>>
    /\ foundFiles' = <<>>
    /\ status' = "running"
    /\ UNCHANGED <<tree, order, ignoredFiles, result, listed, prev>>

\* The caller calls once more, writing the same directory the other way.
CallAgain(r) ==
    /\ status = "returned"
    /\ prev = NoCall
    /\ r # root
    /\ prev' = [root |-> root, result |-> result]
    /\ root' = r
    /\ stack' = <<Frame(r)>>
    /\ foundFiles' = <<>>
    /\ status' = "running"
    /\ result' = NoResult
    /\ listed' = {}
    /\ UNCHANGED <<tree, order, ignoredFiles>>

\* An error thrown by a library call leaves every frame.
Throw ==
    /\ stack' = <<>>
    /\ status' = "thrown"
    /\ result' = Raised(foundFiles)
    /\ UNCHANGED <<tree, order, ignoredFiles, root, foundFiles, listed, prev>>

\* Line 106: readdirSync lists the directory.
Readdir ==
    /\ status = "running"
    /\ Top.pc = "readdir"
    /\ stack' = ReplaceTop([Top EXCEPT !.pc = "loop",
                                       !.files = readdirSync(tree, order, Top.directoryPath)])
    /\ listed' = listed \cup {Top.directoryPath}
    /\ UNCHANGED <<tree, order, ignoredFiles, root, foundFiles, status, result, prev>>

\* Line 106: readdirSync throws.
ReaddirFails ==
    /\ status = "running"
    /\ Top.pc = "readdir"
    /\ Throw

\* Lines 113-126: the child matches a pattern, `continue outer`.
Skip ==
    /\ InLoop
    /\ Ignored(fileName, filePath, ignoredFiles)
    /\ stack' = ReplaceTop(Advance(Top))
    /\ UNCHANGED <<tree, order, ignoredFiles, root, foundFiles, status, result, listed, prev>>

\* Line 128: statSync throws.
StatFails ==
    /\ InLoop
    /\ ~Ignored(fileName, filePath, ignoredFiles)
    /\ Throw

\* Lines 128-129: the child is a directory, the walker calls itself on it.
Recurse ==
    /\ InLoop
    /\ ~Ignored(fileName, filePath, ignoredFiles)
    /\ isDirectory(tree, filePath)
    /\ stack' = Append(stack, Frame(filePath))
    /\ foundFiles' = Passed(foundFiles)
    /\ UNCHANGED <<tree, order, ignoredFiles, root, status, result, listed, prev>>

\* Lines 130-131: the child is a file, its path is appended.
Push ==
    /\ InLoop
    /\ ~Ignored(fileName, filePath, ignoredFiles)
    /\ ~isDirectory(tree, filePath)
    /\ foundFiles' = Pushed(foundFiles, filePath)
    /\ stack' = ReplaceTop(Advance(Top))
    /\ UNCHANGED <<tree, order, ignoredFiles, root, status, result, listed, prev>>

\* Line 134 in a recursive call: the list goes back to the calling frame,
\* which assigns it (line 129) and moves to its next child.
ReturnInner ==
    /\ status = "running"
    /\ Top.pc = "loop"
    /\ Top.i > Len(Top.files)
    /\ Len(stack) > 1
    /\ stack' = [SubSeq(stack, 1, Len(stack) - 1) EXCEPT ![Len(stack) - 1] = Advance(@)]
    /\ UNCHANGED <<tree, order, ignoredFiles, root, foundFiles, status, result, listed, prev>>

\* Line 134 in the outermost call: the list goes to the caller.
ReturnOuter ==
    /\ status = "running"
    /\ Top.pc = "loop"
    /\ Top.i > Len(Top.files)
    /\ Len(stack) = 1
    /\ stack' = <<>>
    /\ status' = "returned"
    /\ result' = foundFiles
    /\ UNCHANGED <<tree, order, ignoredFiles, root, foundFiles, listed, prev>>

Next ==
    \/ \E r \in RootForms : Call(r)
    \/ \E r \in RootForms : CallAgain(r)
    \/ Readdir
    \/ ReaddirFails
    \/ Skip
    \/ StatFails
    \/ Recurse
    \/ Push
    \/ ReturnInner
    \/ ReturnOuter

Spec == Init /\ [][Next]_vars

----------------------------------------------------------------------------
(* Vocabulary of the properties. *)

\* The path the walker builds for an entry under the root r as written.
Built(r, n) == IF r = "." THEN n.path ELSE r \o "/" \o n.path

\* The root-relative path of a path the walker built under the root r.
Rel(r, p) == IF r = "." THEN p ELSE SubSeq(p, Len(r) + 2, Len(p))

Range(s) == {s[k] : k \in 1..Len(s)}

Files == {n \in tree : ~n.dir}

Dirs == {n \in tree : n.dir}

Anchored(pat) == SubSeq(pat, 1, 1) = "/"

\* m is n or a directory above n.
OnWayTo(m, n) == m = n \/ StartsWith(n.path, m.path \o "/")

Below(d, n) == d # n /\ OnWayTo(d, n)

\* A pattern matches an entry: an anchored one as a literal prefix of the
\* given path of the entry, an unanchored one as a glob on its base name.
Matches(pat, p, n) ==
    IF Anchored(pat) THEN StartsWith(p, Substr1(pat)) ELSE minimatch(n.name, pat)

MatchesSome(p, n) == \E pat \in Range(ignoredFiles) : Matches(pat, p, n)

\* The walker has come across the entry: its directory was listed.
Reached(n) ==
    IF n.parent = "" THEN root \in listed
    ELSE \E d \in Dirs : d.path = n.parent /\ Built(root, d) \in listed

\* Position of an entry among the children of its directory, as listed.
Rank(n) ==
    LET k == CHOOSE k \in 1..Len(Universe) : Universe[k] = n
    IN  IF order = "asc" THEN k ELSE 0 - k

SrcOld == Universe[7]
SrcIndex == Universe[8]
VendorSrcIndex == Universe[12]
OutZip == Universe[5]
BuildOutZip == Universe[4]

----------------------------------------------------------------------------
(* C1 *)

----------------------------------------------------------------------------
(* C2 *)

\* C2: whatever way the root is written, with `/src` in the pattern list
\* the walker leaves out <root>/src/index.js and keeps
\* <root>/vendor/pkg/src/index.js.
C2_AnchoredAtRootOnly ==
    ( /\ status = "returned"
      /\ "/src" \in Range(ignoredFiles)
      /\ SrcIndex \in tree
      /\ VendorSrcIndex \in tree )
    => /\ Built(root, SrcIndex) \notin Range(result)
       /\ Built(root, VendorSrcIndex) \in Range(result)

----------------------------------------------------------------------------
(* C3 *)

\* C3: an entry whose base name matches an unanchored pattern of the list
\* is never appended and never listed, in whatever directory it lies; so
\* with `*.zip` both <root>/out.zip and <root>/build/out.zip stay out.
C3_UnanchoredAnyDepth ==
    \A n \in tree :
        (\E pat \in Range(ignoredFiles) : ~Anchored(pat) /\ minimatch(n.name, pat))
        => /\ Built(root, n) \notin Range(foundFiles)
           /\ Built(root, n) \notin listed
           /\ status = "returned" => Built(root, n) \notin Range(result)

\* A completed walk with `*.zip` that came across out.zip at the root and
\* in build, and returned a list holding neither.
C3_Witness ==
    /\ status = "returned"
    /\ "*.zip" \in Range(ignoredFiles)
    /\ {OutZip, BuildOutZip} \subseteq tree
    /\ Reached(OutZip) /\ Reached(BuildOutZip)
    /\ result # <<>>
    /\ Built(root, OutZip) \notin Range(result)
    /\ Built(root, BuildOutZip) \notin Range(result)

----------------------------------------------------------------------------
(* C4 *)

----------------------------------------------------------------------------
(* C5 *)

\* C5: with an empty pattern list the returned list holds exactly the
\* regular files of the tree, at every depth, and no directory.
C5_EmptyListKeepsAll ==
    (status = "returned" /\ ignoredFiles = <<>>)
    => Range(result) = {Built(root, n) : n \in Files}

\* A completed walk with no pattern over a tree with a file at the root,
\* a file three directories down and a directory.
C5_Witness ==
    /\ status = "returned"
    /\ ignoredFiles = <<>>
    /\ {SrcOld, VendorSrcIndex} \subseteq tree
    /\ Len(result) >= 2

----------------------------------------------------------------------------
(* C6 *)

----------------------------------------------------------------------------
(* C7 *)

\* C7: when readdirSync or statSync throws, the caller receives no list:
\* a list reaches the caller only from a walk that ran to its end.
C7_NoPartialResult ==
    /\ status = "thrown" => (result = NoResult /\ stack = <<>>)
    /\ result # NoResult => status = "returned"

\* An error thrown below the root after files had been appended.
C7_Witness ==
    /\ status = "thrown"
    /\ foundFiles # <<>>
    /\ Cardinality(listed) >= 2

----------------------------------------------------------------------------
(* C8 *)

\* C8: a child the walker comes across, which no unanchored pattern
\* matches, is excluded exactly when some anchored pattern, its leading
\* `/` removed, is a literal prefix of the child's root-relative path.
C8_AnchoredIsRootRelativePrefix ==
    status = "returned" =>
        \A n \in tree :
            ( /\ Reached(n)
              /\ ~\E pat \in Range(ignoredFiles) : ~Anchored(pat) /\ minimatch(n.name, pat) )
            => ( (IF n.dir THEN Built(root, n) \notin listed
                           ELSE Built(root, n) \notin Range(result))
                 <=> \E pat \in Range(ignoredFiles) :
                         Anchored(pat) /\ StartsWith(n.path, Substr1(pat)) )

----------------------------------------------------------------------------
(* C9 *)

\* C9: the returned list holds no path twice, and for two children of one
\* directory, everything kept at or below the one listed first comes
\* before everything kept at or below the other.
C9_PreOrder ==
    status = "returned" =>
        /\ \A i, j \in 1..Len(result) : result[i] = result[j] => i = j
        /\ \A n1, n2 \in tree :
               (n1.parent = n2.parent /\ Rank(n1) < Rank(n2)) =>
                   \A i, j \in 1..Len(result) :
                       ( /\ \E f \in Files : OnWayTo(n1, f) /\ Built(root, f) = result[i]
                         /\ \E f \in Files : OnWayTo(n2, f) /\ Built(root, f) = result[j] )
                       => i < j

\* A completed walk that kept files from a subdirectory and from siblings
\* on both sides of it.
C9_Witness ==
    /\ status = "returned"
    /\ Len(result) >= 3
    /\ \E d \in Dirs, f1, f2 \in Files :
           /\ d.parent = "" /\ f1.parent = "" /\ f2.parent = ""
           /\ Rank(f1) < Rank(d) /\ Rank(d) < Rank(f2)
           /\ Built(root, f1) \in Range(result)
           /\ Built(root, f2) \in Range(result)
           /\ \E f \in Files : Below(d, f) /\ Built(root, f) \in Range(result)

----------------------------------------------------------------------------
(* C10 *)

\* C10: two calls on the same tree with the same patterns, the root
\* written once as `.` and once as an absolute path, select the same
\* root-relative paths.
C10_RootFormIndependent ==
    (status = "returned" /\ prev # NoCall)
    => {Rel(root, p) : p \in Range(result)}
         = {Rel(prev.root, p) : p \in Range(prev.result)}

====
